---- MODULE Spec2Model ----
(***************************************************************************)
(* proxycache: slot selection, locking and the request lifecycle of the    *)
(* OpenAI-compatible proxy in front of llama.cpp (slot_manager.py, app.py, *)
(* llama_client.py, hashing.py).                                           *)
(*                                                                         *)
(* The program is a single asyncio event loop: a coroutine runs until it   *)
(* really suspends (a backend HTTP call, a yield of a stream chunk, an     *)
(* asyncio.Lock.acquire() that cannot take the lock at once).  Each action *)
(* below is one such run-until-suspension of one request handler.          *)
(***************************************************************************)
EXTENDS Integers, Sequences, FiniteSets, TLC

----------------------------------------------------------------------------
(* Bounds of the model *)

NumReq   == 3      \* request handlers that may be in flight
MaxSlots == 2      \* largest slots_count the manager is constructed with
MaxClock == 1      \* largest value of the wall clock time.time()
MaxWords == 2      \* longest canonical prefix, in words
MaxFiles == 3      \* most snapshot files in the cache directory

(* Program constants *)

SimilarityNum == 85          \* SIMILARITY_MIN_RATIO = 0.85 = 85 / 100
SimilarityDen == 100
EmptyWpb == 16               \* words_per_block of a binding made for a free id

Req      == 1 .. NumReq
Slots    == 0 .. (MaxSlots - 1)
Words    == {1, 2}
None     == -1               \* Python None for an optional slot id
NoReq    == 0

DEFAULT_MODEL_ID == "llama.cpp"
EmptyKey == -1               \* the placeholder key "(empty)"

Min(a, b) == IF a < b THEN a ELSE b
Max(a, b) == IF a > b THEN a ELSE b

----------------------------------------------------------------------------
(* hashing.py: SHA-256 is modelled as an injective encoding of the hashed  *)
(* word sequence (base 3 over the words 1, 2), so that two hashes are      *)
(* equal exactly when the hashed texts are.                                *)

RECURSIVE sha256(_)
sha256(ws) == IF ws = <<>> THEN 0 ELSE ws[Len(ws)] + 3 * sha256(SubSeq(ws, 1, Len(ws) - 1))

prefix_key_sha256(text) == 1 + sha256(text)

RECURSIVE block_hashes_from_text(_, _)
block_hashes_from_text(ws, wpb) ==
    IF ws = <<>> THEN <<>>
    ELSE <<sha256(SubSeq(ws, 1, Min(wpb, Len(ws))))>>
         \o block_hashes_from_text(SubSeq(ws, Min(wpb, Len(ws)) + 1, Len(ws)), wpb)

lcp_blocks(blocks1, blocks2) ==
    LET n == Min(Len(blocks1), Len(blocks2))
    IN  CHOOSE i \in 0 .. n :
            /\ \A j \in 1 .. i : blocks1[j] = blocks2[j]
            /\ (i = n \/ blocks1[i + 1] # blocks2[i + 1])

(* Canonical prefixes a request may carry, and the block sizes it may ask. *)
(* The empty prefix and the prefixes that open with the same word, so that *)
(* any two non-empty requests share at least their first block.            *)
Texts == {<<>>} \cup {t \in UNION {[1 .. n -> Words] : n \in 1 .. MaxWords} : t[1] = 1}
Wpbs  == {1}

----------------------------------------------------------------------------
(* State *)

VARIABLES
    slots_count,   \* SlotManager.slots_count
    bindings,      \* SlotManager._bindings: slot id -> SlotBinding (bound = FALSE: no entry)
    locks,         \* SlotBinding.lock of each slot id (asyncio.Lock)
    global_lock,   \* SlotManager._global_lock (asyncio.Lock)
    req,           \* the request handlers: position and local variables
    calls,         \* backend calls issued so far, per request
    metas,         \* the .meta records on disk, in scan order (mtime descending)
    clock,         \* time.time()
    PINNED_PREFIX_KEYS,  \* config.PINNED_PREFIX_KEYS, read from the environment at start
    probe          \* arguments and result of a pure function under test

vars == <<slots_count, bindings, locks, global_lock, req, calls, metas, clock,
          PINNED_PREFIX_KEYS, probe>>

(* SlotBinding.  prefix_text is only ever copied, never read by a decision, *)
(* and is left out; key stands for it.                                      *)
(* Identity of an asyncio.Lock object; NoLock: the lock argument not yet   *)
(* given.                                                                  *)
NoLock == 0

SlotBinding(key, block_hashes, last_use_ts, words_per_block, pinned, hot) ==
    [bound |-> TRUE, key |-> key, block_hashes |-> block_hashes,
     last_use_ts |-> last_use_ts, words_per_block |-> words_per_block,
     pinned |-> pinned, hot |-> hot, lock |-> NoLock]

NoBinding ==
    [bound |-> FALSE, key |-> EmptyKey, block_hashes |-> <<>>, last_use_ts |-> 0,
     words_per_block |-> EmptyWpb, pinned |-> FALSE, hot |-> FALSE, lock |-> NoLock]

(* asyncio.Lock: _locked, _waiters (FIFO of futures) and whether the first *)
(* waiter's future has been resolved by release().  owner is a ghost: the  *)
(* request whose acquire() last set _locked.                               *)
FreeLock == [locked |-> FALSE, owner |-> NoReq, waiters |-> <<>>, woken |-> FALSE]

LockIsFree(l) == ~l.locked /\ l.waiters = <<>>

(* Lock.acquire(): takes the lock at once when it is unlocked and nobody   *)
(* waits; otherwise the caller is appended to the waiters and suspends.    *)
LockAcquire(l, r) ==
    IF LockIsFree(l) THEN [l EXCEPT !.locked = TRUE, !.owner = r]
    ELSE [l EXCEPT !.waiters = Append(@, r)]

(* Lock.release(): unlocks and wakes the first waiter; on an unlocked lock *)
(* it raises RuntimeError, which every caller in app.py swallows.          *)
LockRelease(l) ==
    IF l.locked
    THEN [l EXCEPT !.locked = FALSE, !.owner = NoReq,
                   !.woken = (l.waiters # <<>>)]
    ELSE l

(* The woken waiter resumes inside acquire(): leaves the queue, sets _locked. *)
LockResume(l, r) ==
    [locked |-> TRUE, owner |-> r, waiters |-> Tail(l.waiters), woken |-> FALSE]

IdleReq ==
    [pc |-> "idle", small |-> FALSE, stream |-> FALSE, key |-> EmptyKey,
     blocks |-> <<>>, wpb |-> EmptyWpb, sid |-> None, via |-> "none",
     source |-> "none", lcp |-> 0, rejected |-> None, meta |-> 0,
     best_meta_lcp |-> 0, took |-> "none", restore |-> "none", nrel |-> 0, status |-> 0,
     detail |-> "none", lock |-> NoLock]

(* A field a JSON record does not have: dict.get() returns its default. *)
Absent == 0

(* write_meta: the record it stores for key.  It names the block size      *)
(* "wpb"; it writes no field "words_per_block".                            *)
write_meta(key, blocks, wpb, model_id) ==
    [key |-> key, model_id |-> model_id, wpb |-> wpb, words_per_block |-> Absent,
     blocks |-> blocks, timestamp |-> 0]

(* The .meta record of a prefix text saved under block size wpb. *)
Meta(text, wpb, model_id) ==
    write_meta(prefix_key_sha256(text), block_hashes_from_text(text, wpb), wpb, model_id)

(* find_best_restore_candidate: the scan over the records, newest first,   *)
(* keeping the first record of the highest ratio that reaches th           *)
(* (th = th_num / th_den, best_ratio = best_num / best_den).               *)
RECURSIVE find_best_scan(_, _, _, _, _, _, _, _, _)
find_best_scan(ms, req_blocks, wpb, th_num, th_den, model_id, best_key, best_num, best_den) ==
    IF ms = <<>> THEN best_key
    ELSE LET meta  == Head(ms)
             lcp   == lcp_blocks(req_blocks, meta.blocks)
             denom == Max(1, Min(Len(req_blocks), Len(meta.blocks)))
             take  == /\ meta.model_id = model_id
                      /\ meta.wpb = wpb
                      /\ lcp * th_den >= th_num * denom
                      /\ lcp * best_den > best_num * denom
         IN  IF take
             THEN find_best_scan(Tail(ms), req_blocks, wpb, th_num, th_den, model_id,
                                 meta.key, lcp, denom)
             ELSE find_best_scan(Tail(ms), req_blocks, wpb, th_num, th_den, model_id,
                                 best_key, best_num, best_den)

(* The key of the best candidate, None when there is none *)
find_best_restore_candidate(ms, req_blocks, wpb, th_num, th_den, model_id) ==
    find_best_scan(ms, req_blocks, wpb, th_num, th_den, model_id, None, 0, 1)

(* Contents of the metadata directory left by earlier runs, newest first:  *)
(* nothing; a two-block record ahead of a one-block record that is a       *)
(* prefix of it; a record of another model and one saved with block size 2.*)
MetaDirs ==
    { <<>>,
      << Meta(<<1, 1>>, 1, DEFAULT_MODEL_ID), Meta(<<1>>, 1, DEFAULT_MODEL_ID) >>,
      << Meta(<<1, 2>>, 1, "other"), Meta(<<1>>, 2, DEFAULT_MODEL_ID) >> }

(* The configurations the proxy is started with: a metadata directory and  *)
(* the pinned keys (PINNED_KEYS, empty unless set).                        *)
Configs ==
    {<<d, {}>> : d \in MetaDirs} \cup {<< <<>>, {prefix_key_sha256(<<1>>)} >>}

NoProbe == [pc |-> "none"]

----------------------------------------------------------------------------
(* The mutable state threaded through one run-until-suspension. *)

St == [b |-> bindings, L |-> locks, G |-> global_lock, q |-> req, c |-> calls, m |-> metas]

Commit(S) ==
    /\ bindings' = S.b
    /\ locks' = S.L
    /\ global_lock' = S.G
    /\ req' = S.q
    /\ calls' = S.c
    /\ metas' = S.m
    /\ UNCHANGED <<slots_count, clock, PINNED_PREFIX_KEYS, probe>>

BoundIds(b) == {s \in 0 .. (slots_count - 1) : b[s].bound}

_eligible_active(b, wpb) == b.hot /\ b.words_per_block = wpb

_free_slot_ids(b) == {s \in 0 .. (slots_count - 1) : ~b[s].bound}

(* _lrud_ids sorts the bound ids by last_use_ts; sorted() is stable and    *)
(* the dict iterates in insertion order, which is ascending slot id        *)
(* (a binding is only ever inserted for the smallest free id).  This is    *)
(* the first id of that order within the set ids.                          *)
LrudFirst(b, ids) ==
    CHOOSE s \in ids : \A t \in ids \ {s} :
        \/ b[s].last_use_ts < b[t].last_use_ts
        \/ (b[s].last_use_ts = b[t].last_use_ts /\ s < t)

SetMin(ids) == CHOOSE s \in ids : \A t \in ids : s <= t

(* The ratio test with the denominator forgotten: any common block passes. *)
RatioAcceptedNoDenominator(lcp, n1, n2) ==
    lcp * SimilarityDen >= SimilarityNum

(* SIMILARITY_MIN_RATIO test: lcp / max(1, min(n1, n2)) >= 0.85 *)
RatioAccepted(lcp, n1, n2) ==
    lcp * SimilarityDen >= SimilarityNum * Max(1, Min(n1, n2))

----------------------------------------------------------------------------
(* app.py: the slot has been handed to the handler, which forwards the     *)
(* chat completion to the backend.                                         *)
EnterGeneration(S, r) ==
    [S EXCEPT !.q[r].pc = IF S.q[r].stream THEN "stream" ELSE "chat",
              !.c[r] = @ \cup {[op |-> "chat", sid |-> S.q[r].sid, key |-> EmptyKey]}]

(* Leaving "async with gl" *)
ReleaseGlobal(S) == [S EXCEPT !.G = LockRelease(@)]

(* The selection with the exclude set dropped. *)
AcquireTargetNoExclude(b, L, ex) ==
    LET free  == _free_slot_ids(b)
        lrud  == BoundIds(b)
        cold  == {s \in lrud : ~b[s].pinned /\ ~b[s].hot /\ ~L[s].locked}
        unl   == {s \in lrud : ~b[s].pinned /\ ~L[s].locked}
    IN  IF free # {} THEN [sid |-> SetMin(free), fresh |-> TRUE]
        ELSE IF cold # {} THEN [sid |-> LrudFirst(b, cold), fresh |-> FALSE]
        ELSE IF unl # {} THEN [sid |-> LrudFirst(b, unl), fresh |-> FALSE]
        ELSE [sid |-> LrudFirst(b, lrud), fresh |-> FALSE]

(* The selection taking the lowest slot id of each tier, not the LRU. *)
AcquireTargetLowestId(b, L, ex) ==
    LET free  == _free_slot_ids(b) \ ex
        lrud  == BoundIds(b) \ ex
        cold  == {s \in lrud : ~b[s].pinned /\ ~b[s].hot /\ ~L[s].locked}
        unl   == {s \in lrud : ~b[s].pinned /\ ~L[s].locked}
        all   == BoundIds(b)
    IN  IF free # {} THEN [sid |-> SetMin(free), fresh |-> TRUE]
        ELSE IF cold # {} THEN [sid |-> SetMin(cold), fresh |-> FALSE]
        ELSE IF unl # {} THEN [sid |-> SetMin(unl), fresh |-> FALSE]
        ELSE IF lrud # {} THEN [sid |-> SetMin(lrud), fresh |-> FALSE]
        ELSE IF all = {} THEN [sid |-> 0, fresh |-> TRUE]
        ELSE [sid |-> SetMin(all), fresh |-> FALSE]

(* The selection without the tier of the unlocked cold slots. *)
AcquireTargetNoColdTier(b, L, ex) ==
    LET free  == _free_slot_ids(b) \ ex
        lrud  == BoundIds(b) \ ex
        unl   == {s \in lrud : ~b[s].pinned /\ ~L[s].locked}
        all   == BoundIds(b)
    IN  IF free # {} THEN [sid |-> SetMin(free), fresh |-> TRUE]
        ELSE IF unl # {} THEN [sid |-> LrudFirst(b, unl), fresh |-> FALSE]
        ELSE IF lrud # {} THEN [sid |-> LrudFirst(b, lrud), fresh |-> FALSE]
        ELSE IF all = {} THEN [sid |-> 0, fresh |-> TRUE]
        ELSE [sid |-> LrudFirst(b, all), fresh |-> FALSE]

(* acquire_free_or_cold_slot: the slot it settles on *)
AcquireTarget(b, L, ex) ==
    LET free  == _free_slot_ids(b) \ ex
        lrud  == BoundIds(b) \ ex
        cold  == {s \in lrud : ~b[s].pinned /\ ~b[s].hot /\ ~L[s].locked}
        unl   == {s \in lrud : ~b[s].pinned /\ ~L[s].locked}
        all   == BoundIds(b)
    IN  IF free # {} THEN [sid |-> SetMin(free), fresh |-> TRUE]
        ELSE IF cold # {} THEN [sid |-> LrudFirst(b, cold), fresh |-> FALSE]
        ELSE IF unl # {} THEN [sid |-> LrudFirst(b, unl), fresh |-> FALSE]
        ELSE IF lrud # {} THEN [sid |-> LrudFirst(b, lrud), fresh |-> FALSE]
        ELSE IF all = {} THEN [sid |-> 0, fresh |-> TRUE]
        ELSE [sid |-> LrudFirst(b, all), fresh |-> FALSE]

(* The binding of a free id, made with the dataclass default hot = True. *)
EmptyBindingDefaultHot == SlotBinding(EmptyKey, <<>>, clock, EmptyWpb, FALSE, TRUE)

(* The binding acquire_free_or_cold_slot makes for a free id:             *)
(* key "(empty)", no blocks, words_per_block 16, not pinned, cold.        *)
EmptyBinding == SlotBinding(EmptyKey, <<>>, clock, EmptyWpb, FALSE, FALSE)

(* field(default_factory=asyncio.Lock): a lock object no binding carries. *)
default_factory(b) ==
    1 + (CHOOSE n \in {b[s].lock : s \in Slots} : \A s \in Slots : b[s].lock <= n)

(* acquire_free_or_cold_slot up to its return or its suspension in         *)
(* lock.acquire(): pc becomes "wait_slot" when the caller suspends.        *)
acquire_free_or_cold_slot(S, r, ex) ==
    LET t  == AcquireTarget(S.b, S.L, ex)
        S1 == IF t.fresh
              THEN [S EXCEPT !.b[t.sid] = [EmptyBinding EXCEPT !.lock = default_factory(S.b)],
                             !.L[t.sid] = FreeLock]
              ELSE S
    IN  [S1 EXCEPT !.L[t.sid] = LockAcquire(@, r),
                   !.q[r].sid = t.sid,
                   !.q[r].lock = S1.b[t.sid].lock,
                   !.q[r].took = IF t.fresh THEN "free" ELSE "bound",
                   !.q[r].pc = IF LockIsFree(S1.L[t.sid]) THEN "have_slot" ELSE "wait_slot"]

(* Cold start with the lock argument left out: the new binding gets a     *)
(* lock of its own, unlocked and with no waiter.                          *)
ColdBindOwnLock(S, r) ==
    LET q == S.q[r]
        S1 == [S EXCEPT !.b[q.sid] = [SlotBinding(q.key, q.blocks, clock, q.wpb,
                                                  q.key \in PINNED_PREFIX_KEYS, TRUE)
                                         EXCEPT !.lock = default_factory(S.b)],
                        !.L[q.sid] = FreeLock,
                        !.q[r].source = "cold",
                        !.q[r].lcp = 0]
    IN  EnterGeneration(ReleaseGlobal(S1), r)

(* ensure_slot_for_request, step 6: cold start; lock=slot_binding.lock *)
ColdBind(S, r) ==
    LET q == S.q[r]
        S1 == [S EXCEPT !.b[q.sid] = [SlotBinding(q.key, q.blocks, clock, q.wpb,
                                                  q.key \in PINNED_PREFIX_KEYS, TRUE)
                                         EXCEPT !.lock = S.b[q.sid].lock],
                        !.q[r].source = "cold",
                        !.q[r].lcp = 0]
    IN  EnterGeneration(ReleaseGlobal(S1), r)

(* ensure_slot_for_request, step 5, with the target slot locked: either    *)
(* the restore call is issued (the handler suspends in it) or cold start.  *)
AfterTarget(S, r) ==
    LET q == S.q[r]
    IN  IF /\ q.meta # 0
           /\ q.best_meta_lcp > 0
           /\ RatioAccepted(q.best_meta_lcp, Len(q.blocks), Len(metas[q.meta].blocks))
        THEN [S EXCEPT !.q[r].pc = "restore",
                       !.c[r] = @ \cup {[op |-> "restore", sid |-> q.sid,
                                         key |-> metas[q.meta].key]}]
        ELSE ColdBind(S, r)

(* The active return made to rebind the slot to the request's prefix. *)
ActiveReturnRebinds(S, r) ==
    LET q == S.q[r]
        S1 == [S EXCEPT !.b[q.sid].last_use_ts = clock,
                        !.b[q.sid].key = q.key,
                        !.b[q.sid].block_hashes = q.blocks,
                        !.q[r].source = q.via]
    IN  EnterGeneration(ReleaseGlobal(S1), r)

(* ensure_slot_for_request, active-exact / active-lcp accepted, after the  *)
(* lock step: stamp the binding and return.                                *)
ActiveReturn(S, r) ==
    LET q == S.q[r]
        S1 == [S EXCEPT !.b[q.sid].last_use_ts = clock,
                        !.q[r].source = q.via]
    IN  EnterGeneration(ReleaseGlobal(S1), r)

(* "if not best_binding.lock.locked(): await best_binding.lock.acquire()" *)
ActiveAccept(S, r, sid, tag, lcp) ==
    LET S1 == [S EXCEPT !.q[r].sid = sid, !.q[r].via = tag, !.q[r].lcp = lcp,
                        !.q[r].lock = S.b[sid].lock]
    IN  IF ~S.L[sid].locked
        THEN IF LockIsFree(S.L[sid])
             THEN ActiveReturn([S1 EXCEPT !.L[sid] = LockAcquire(@, r)], r)
             ELSE [S1 EXCEPT !.L[sid] = LockAcquire(@, r), !.q[r].pc = "wait_slot"]
        ELSE ActiveReturn(S1, r)

(* The active candidate taken as the first eligible hot slot that shares   *)
(* a block with the request, with no exact pass and no maximum.            *)
ActiveCandidateFirstShared(b, req_blocks, wpb) ==
    LET pos == {s \in BoundIds(b) : /\ _eligible_active(b[s], wpb)
                                    /\ lcp_blocks(req_blocks, b[s].block_hashes) > 0}
    IN  IF pos = {} THEN [sid |-> None, lcp |-> 0]
        ELSE [sid |-> SetMin(pos), lcp |-> lcp_blocks(req_blocks, b[SetMin(pos)].block_hashes)]

(* Steps 1 and 2: the active candidate [sid, lcp], sid = None when there is none *)
ActiveCandidate(b, req_blocks, wpb) ==
    LET elig  == {s \in BoundIds(b) : _eligible_active(b[s], wpb)}
        exact == {s \in elig : b[s].block_hashes = req_blocks}
        pos   == {s \in elig : lcp_blocks(req_blocks, b[s].block_hashes) > 0}
    IN  IF exact # {} THEN [sid |-> SetMin(exact), lcp |-> Len(req_blocks)]
        ELSE IF pos = {} THEN [sid |-> None, lcp |-> 0]
        ELSE LET best == CHOOSE s \in pos : \A t \in pos \ {s} :
                            LET ls == lcp_blocks(req_blocks, b[s].block_hashes)
                                lt == lcp_blocks(req_blocks, b[t].block_hashes)
                            IN  ls > lt \/ (ls = lt /\ s < t)
             IN  [sid |-> best, lcp |-> lcp_blocks(req_blocks, b[best].block_hashes)]

(* Step 3: the restore candidate, an index into metas (0: none) *)
MetaPasses(m, wpb) ==
    /\ m.model_id = DEFAULT_MODEL_ID
    /\ (IF m.words_per_block = Absent THEN wpb ELSE m.words_per_block) = wpb

BestMeta(req_blocks, wpb) ==
    LET pos == {i \in 1 .. Len(metas) :
                   MetaPasses(metas[i], wpb) /\ lcp_blocks(req_blocks, metas[i].blocks) > 0}
    IN  IF pos = {} THEN 0
        ELSE CHOOSE i \in pos : \A j \in pos \ {i} :
                LET li == lcp_blocks(req_blocks, metas[i].blocks)
                    lj == lcp_blocks(req_blocks, metas[j].blocks)
                IN  li > lj \/ (li = lj /\ i < j)

(* ensure_slot_for_request from the moment the global lock is held to the  *)
(* first suspension or the return.                                         *)
ensure_slot_for_request(S, r) ==
    LET q    == S.q[r]
        cand == ActiveCandidate(S.b, q.blocks, q.wpb)
        rej  == cand.sid # None /\ cand.lcp # Len(q.blocks)
                /\ ~RatioAccepted(cand.lcp, Len(q.blocks), Len(S.b[cand.sid].block_hashes))
    IN  IF cand.sid # None /\ cand.lcp = Len(q.blocks)
        THEN ActiveAccept(S, r, cand.sid, "active-exact", cand.lcp)
        ELSE IF cand.sid # None /\ ~rej
        THEN ActiveAccept(S, r, cand.sid, "active-lcp", cand.lcp)
        ELSE LET bm == BestMeta(q.blocks, q.wpb)
                 S1 == [S EXCEPT !.q[r].rejected = IF rej THEN cand.sid ELSE None,
                                 !.q[r].meta = bm,
                                 !.q[r].best_meta_lcp =
                                     IF bm = 0 THEN 0 ELSE lcp_blocks(q.blocks, metas[bm].blocks),
                                 !.q[r].via = "target"]
                 S2 == acquire_free_or_cold_slot(S1, r, IF rej THEN {cand.sid} ELSE {})
             IN  IF S2.q[r].pc = "wait_slot" THEN S2 ELSE AfterTarget(S2, r)

mark_slot_cold(S, sid) ==
    IF S.b[sid].bound THEN [S EXCEPT !.b[sid].hot = FALSE] ELSE S

(* save_slot_cache: the backend save call and, unless it raised, the .meta *)
(* record of the slot's current binding, newest first in the next scan.   *)
(* save_slot returns False on a 500 without raising; any other non-2xx    *)
(* status raises HTTPStatusError, which is caught and logged.  No handler *)
(* of app.py and no step of ensure_slot_for_request calls it.             *)
save_slot_cache(S, r, slot_id, key, res) ==
    LET S1 == [S EXCEPT !.c[r] = @ \cup {[op |-> IF res = "status" THEN "save_failed" ELSE "save",
                                          sid |-> slot_id, key |-> key]}]
        b  == S.b[slot_id]
        rec == [key |-> key, model_id |-> DEFAULT_MODEL_ID, wpb |-> Absent,
                words_per_block |-> b.words_per_block, blocks |-> b.block_hashes,
                timestamp |-> clock]
        others == SelectSeq(S.m, LAMBDA x : x.key # key)
    IN  IF res \in {"ok", "500"} /\ b.bound
        THEN [S1 EXCEPT !.m = <<rec>> \o others]
        ELSE S1

(* touch stamping with a clock that starts at zero with the process. *)
touchProcessClock(S, sid) ==
    IF S.b[sid].bound THEN [S EXCEPT !.b[sid].last_use_ts = 0] ELSE S

touch(S, sid) ==
    IF S.b[sid].bound THEN [S EXCEPT !.b[sid].last_use_ts = clock] ELSE S

(* The handler is over: its locals are gone, what stays is what it did.   *)
Done(q, status) ==
    [IdleReq EXCEPT !.pc = "done", !.small = q.small, !.sid = q.sid,
                    !.nrel = q.nrel, !.status = status, !.detail = q.detail]

(* The handler ends without its finally block. *)
FinishNoRelease(S, r, status) ==
    [S EXCEPT !.q[r] = Done(S.q[r], status)]

(* The finally block of a handler: binding.lock.release() *)
Finish(S, r, status) ==
    [S EXCEPT !.L[S.q[r].sid] = LockRelease(@),
              !.q[r] = Done([S.q[r] EXCEPT !.nrel = @ + 1], status)]

----------------------------------------------------------------------------
(* Actions *)

Init ==
    /\ slots_count \in 1 .. MaxSlots
    /\ bindings = [s \in Slots |-> NoBinding]
    /\ locks = [s \in Slots |-> FreeLock]
    /\ global_lock = FreeLock
    /\ req = [r \in Req |-> IdleReq]
    /\ calls = [r \in Req |-> {}]
    /\ \E cfg \in Configs : metas = cfg[1] /\ PINNED_PREFIX_KEYS = cfg[2]
    /\ clock = 0
    /\ probe = NoProbe

(* chat_completions for a small request up to its first suspension *)
ArriveSmall(r) ==
    /\ req[r].pc = "idle"
    /\ \A p \in Req : p < r => req[p].pc # "idle"
    /\ \E stream \in BOOLEAN :
        LET S0 == [St EXCEPT !.q[r].small = TRUE, !.q[r].stream = stream, !.q[r].via = "small"]
            S1 == acquire_free_or_cold_slot(S0, r, {})
        IN  Commit(IF S1.q[r].pc = "wait_slot" THEN S1
                   ELSE EnterGeneration([S1 EXCEPT !.q[r].source = "small"], r))

(* chat_completions for a big request up to its first suspension *)
ArriveBig(r) ==
    /\ req[r].pc = "idle"
    /\ \A p \in Req : p < r => req[p].pc # "idle"
    /\ \E stream \in BOOLEAN, text \in Texts, wpb \in Wpbs :
        LET S0 == [St EXCEPT !.q[r].small = FALSE, !.q[r].stream = stream,
                             !.q[r].key = prefix_key_sha256(text),
                             !.q[r].blocks = block_hashes_from_text(text, wpb),
                             !.q[r].wpb = wpb,
                             !.G = LockAcquire(@, r)]
        IN  Commit(IF LockIsFree(global_lock) THEN ensure_slot_for_request(S0, r)
                   ELSE [S0 EXCEPT !.q[r].pc = "wait_global"])

(* A waiter of the global lock resumes and runs ensure_slot_for_request *)
GlobalResume(r) ==
    /\ req[r].pc = "wait_global"
    /\ global_lock.woken
    /\ Head(global_lock.waiters) = r
    /\ Commit(ensure_slot_for_request([St EXCEPT !.G = LockResume(@, r)], r))

(* A waiter of a slot lock resumes where it suspended *)
SlotResume(r) ==
    /\ req[r].pc = "wait_slot"
    /\ locks[req[r].sid].woken
    /\ Head(locks[req[r].sid].waiters) = r
    /\ LET S0 == [St EXCEPT !.L[req[r].sid] = LockResume(@, r)]
       IN  Commit(CASE req[r].via = "small" ->
                          EnterGeneration([S0 EXCEPT !.q[r].source = "small"], r)
                    [] req[r].via = "target" -> AfterTarget(S0, r)
                    [] OTHER -> ActiveReturn(S0, r))

(* restore_slot_cache returns (200 or a non-200 status), or the HTTP call  *)
(* raises (backend unreachable, timeout), which nothing catches.           *)
RestoreReturn(r) ==
    /\ req[r].pc = "restore"
    /\ \E res \in {"ok", "status", "raise"} :
        LET q  == req[r]
            m  == metas[q.meta]
            S0 == [St EXCEPT !.q[r].restore = res]
        IN  Commit(IF res = "raise"
                   THEN ReleaseGlobal([S0 EXCEPT !.q[r] = Done(q, 500)])
                   ELSE EnterGeneration(ReleaseGlobal(
                            [S0 EXCEPT !.b[q.sid] = [SlotBinding(m.key, m.blocks, clock, q.wpb,
                                                                m.key \in PINNED_PREFIX_KEYS, TRUE)
                                                        EXCEPT !.lock = bindings[q.sid].lock],
                                       !.q[r].source = "restore-lcp",
                                       !.q[r].lcp = q.best_meta_lcp]), r))

(* Non-stream: chat_completions_json returns or raises *)
ChatReturn(r) ==
    /\ req[r].pc = "chat"
    /\ \E res \in {"ok", "connect_error", "http_error"} :
        LET S0 == IF req[r].small /\ res = "ok" THEN mark_slot_cold(St, req[r].sid) ELSE St
            S1 == [S0 EXCEPT !.q[r].detail =
                       CASE res = "connect_error" -> "llama backend unavailable"
                         [] res = "http_error" -> "llama backend error"
                         [] OTHER -> "none"]
        IN  Commit(Finish(S1, r, IF res = "ok" THEN 200 ELSE 502))

(* Stream, big request: one chunk relayed, then touch(slot_id) *)
StreamChunk(r) ==
    /\ req[r].pc = "stream"
    /\ ~req[r].small
    /\ Commit(touch(St, req[r].sid))

(* Stream ends: exhausted, backend error, or the client went away at a     *)
(* yield; the finally block runs in every case.                            *)
StreamEnd(r) ==
    /\ req[r].pc = "stream"
    /\ \E res \in {"ok", "connect_error", "http_error", "disconnect"} :
        LET S0 == IF req[r].small THEN mark_slot_cold(St, req[r].sid) ELSE St
        IN  Commit(Finish(S0, r, IF res = "ok" THEN 200 ELSE IF res = "disconnect" THEN 0 ELSE 502))

Tick ==
    /\ clock < MaxClock
    /\ clock' = clock + 1
    /\ UNCHANGED <<slots_count, bindings, locks, global_lock, req, calls, metas,
                   PINNED_PREFIX_KEYS, probe>>

Next ==
    \/ \E r \in Req : ArriveSmall(r)
    \/ \E r \in Req : ArriveBig(r)
    \/ \E r \in Req : GlobalResume(r)
    \/ \E r \in Req : SlotResume(r)
    \/ \E r \in Req : RestoreReturn(r)
    \/ \E r \in Req : ChatReturn(r)
    \/ \E r \in Req : StreamChunk(r)
    \/ \E r \in Req : StreamEnd(r)
    \/ Tick

Spec == Init /\ [][Next]_vars

(* The proxy started with PINNED_KEYS unset, the default *)
InitUnpinned == Init /\ PINNED_PREFIX_KEYS = {}

SpecUnpinned == InitUnpinned /\ [][Next]_vars

(* The event loop runs every ready handler, and every await of a backend   *)
(* call (restore, chat completion, stream) ends, by a response or by an    *)
(* exception.  No request has to arrive and the clock need not advance.    *)
Fairness ==
    \A r \in Req :
        /\ WF_vars(GlobalResume(r))
        /\ WF_vars(SlotResume(r))
        /\ WF_vars(RestoreReturn(r))
        /\ WF_vars(ChatReturn(r))
        /\ WF_vars(StreamEnd(r))

SpecLive == InitUnpinned /\ [][Next]_vars /\ Fairness

----------------------------------------------------------------------------
(* app.py: the classification of a request as small or big, on its own.    *)

(* resolve_threshold_mode: an unknown mode falls back to "chars" *)
resolve_threshold_mode(v) == IF v \in {"chars", "words", "blocks"} THEN v ELSE "chars"

(* len(prefix_text) of a text of one-character words joined by one space *)
TextLen(text) == IF text = <<>> THEN 0 ELSE 2 * Len(text) - 1

(* The test with the boundary on the small side. *)
smallInclusive(mode, prefix_len, words_cnt, blocks_cnt, min_chars, min_words, min_blocks) ==
    \/ (mode = "chars" /\ prefix_len <= min_chars)
    \/ (mode = "words" /\ words_cnt <= min_words)
    \/ (mode = "blocks" /\ blocks_cnt <= min_blocks)

(* "small = (...)" of chat_completions *)
small(mode, prefix_len, words_cnt, blocks_cnt, min_chars, min_words, min_blocks) ==
    \/ (mode = "chars" /\ prefix_len < min_chars)
    \/ (mode = "words" /\ words_cnt < min_words)
    \/ (mode = "blocks" /\ blocks_cnt < min_blocks)

(* The per-request settings: x-threshold-mode, x-min-prefix-*, x-block-size *)
ModeHeaders == {"chars", "words", "blocks", "tokens"}
Thresholds  == 0 .. (MaxWords + 1)
BlockSizes  == {1, 2}

(* The rest of the state of a freshly started proxy *)
Fresh ==
    /\ slots_count = MaxSlots
    /\ bindings = [s \in Slots |-> NoBinding]
    /\ locks = [s \in Slots |-> FreeLock]
    /\ global_lock = FreeLock
    /\ req = [r \in Req |-> IdleReq]
    /\ calls = [r \in Req |-> {}]
    /\ clock = 0

Frozen == UNCHANGED <<slots_count, bindings, locks, global_lock, req, calls, metas, clock,
                      PINNED_PREFIX_KEYS>>

InitClassify ==
    /\ Fresh
    /\ metas = <<>>
    /\ PINNED_PREFIX_KEYS = {}
    /\ probe \in [pc : {"request"}, mode : ModeHeaders, text : Texts, wpb : BlockSizes,
                   min_chars : Thresholds, min_words : Thresholds, min_blocks : Thresholds,
                   small : {FALSE}]

(* chat_completions from the request to the value of small *)
Classify ==
    /\ probe.pc = "request"
    /\ probe' = [probe EXCEPT
                    !.pc = "classified",
                    !.small = small(resolve_threshold_mode(probe.mode),
                                    TextLen(probe.text),
                                    Len(probe.text),
                                    Len(block_hashes_from_text(probe.text, probe.wpb)),
                                    probe.min_chars, probe.min_words, probe.min_blocks)]
    /\ Frozen

NextClassify == Classify

SpecClassify == InitClassify /\ [][NextClassify]_vars

----------------------------------------------------------------------------
(* hashing.py: cleanup_old_cache, on its own.  File names are sequences of *)
(* their parts; times are counted in hours and sizes in GiB, so that       *)
(* max_age_seconds and max_size_bytes are the arguments themselves.        *)

(* f"slotcache_{key}.bin": the snapshot the proxy asks the backend to save *)
snapshot_basename(key) == <<"slotcache_", key, ".bin">>

(* f"{key}.meta.json": the file write_meta stores the record of key in *)
write_meta_path(key) == <<key, ".meta.json">>

(* f"{cf['basename']}.meta.json": the file cleanup removes with a snapshot *)
cleanup_meta_path(basename) == basename \o <<".meta.json">>

Infinity == -1               \* float('inf')

(* max_age_hours * 3600 if max_age_hours > 0 else float('inf') *)
max_age_seconds(max_age_hours) == IF max_age_hours > 0 THEN max_age_hours ELSE Infinity

RECURSIVE SumSizes(_)
SumSizes(fs) == IF fs = <<>> THEN 0 ELSE Head(fs).size + SumSizes(Tail(fs))

(* The size phase run in listing order, the sort forgotten. *)
ListingOrder(fs) == fs

(* cache_files.sort(key=mtime): stable, oldest first *)
RECURSIVE SortByMtime(_)
SortByMtime(fs) ==
    IF fs = <<>> THEN <<>>
    ELSE LET x    == Head(fs)
             rest == SortByMtime(Tail(fs))
             k    == Cardinality({i \in 1 .. Len(rest) : rest[i].mtime < x.mtime})
         IN  SubSeq(rest, 1, k) \o <<x>> \o SubSeq(rest, k + 1, Len(rest))

(* "Delete by age": over a copy of cache_files; os.remove of a file in     *)
(* unremovable raises OSError, which is logged and leaves the file listed. *)
RECURSIVE age_phase(_, _, _, _, _)
age_phase(todo, now, max_age, unremovable, acc) ==
    IF todo = <<>> THEN acc
    ELSE LET cf == Head(todo)
         IN  IF max_age # Infinity /\ now - cf.mtime > max_age /\ cf.basename \notin unremovable
             THEN age_phase(Tail(todo), now, max_age, unremovable,
                            [acc EXCEPT !.deleted_by_age = @ \cup {cf.basename},
                                        !.metas = @ \ {cleanup_meta_path(cf.basename)}])
             ELSE age_phase(Tail(todo), now, max_age, unremovable,
                            [acc EXCEPT !.cache_files = Append(@, cf)])

(* "Delete by size": oldest first until total_size <= max_size_bytes;      *)
(* each removal is logged with the running total it was decided on.        *)
RECURSIVE size_phase(_, _, _, _, _)
size_phase(todo, total_size, max_size_bytes, unremovable, acc) ==
    IF todo = <<>> \/ total_size <= max_size_bytes THEN acc
    ELSE LET cf == Head(todo)
         IN  IF cf.basename \in unremovable
             THEN size_phase(Tail(todo), total_size, max_size_bytes, unremovable, acc)
             ELSE size_phase(Tail(todo), total_size - cf.size, max_size_bytes, unremovable,
                             [acc EXCEPT !.deleted_by_size =
                                             Append(@, [basename |-> cf.basename,
                                                        mtime |-> cf.mtime,
                                                        total_size |-> total_size]),
                                         !.metas = @ \ {cleanup_meta_path(cf.basename)}])

(* cleanup_old_cache: what it deleted and the meta files it left *)
cleanup_old_cache(cache_files, metas_on_disk, now, max_age_hours, max_size_bytes, unremovable) ==
    LET aged  == age_phase(cache_files, now, max_age_seconds(max_age_hours), unremovable,
                           [cache_files |-> <<>>, metas |-> metas_on_disk,
                            deleted_by_age |-> {}, deleted_by_size |-> <<>>])
        total == SumSizes(aged.cache_files)
    IN  IF total > max_size_bytes
        THEN size_phase(SortByMtime(aged.cache_files), total, max_size_bytes, unremovable, aged)
        ELSE aged

(* The cache directories: snapshots of the keys 1 .. n, in listing order,  *)
(* each of 1 or 2 GiB and written at some hour up to MaxClock.             *)
CacheFile(key, size, mtime) == [basename |-> snapshot_basename(key), size |-> size, mtime |-> mtime]

CacheDirs ==
    UNION {{[i \in 1 .. n |-> CacheFile(i, f[i][1], f[i][2])] :
                f \in [1 .. n -> {1, 2} \X (0 .. MaxClock)]} : n \in 0 .. MaxFiles}

InitCleanup ==
    /\ Fresh
    /\ metas = <<>>
    /\ PINNED_PREFIX_KEYS = {}
    /\ \E dir \in CacheDirs, hours \in 0 .. (MaxClock + 1), cap \in 0 .. MaxFiles :
        \E bad \in {{}} \cup {{dir[i].basename} : i \in 1 .. Len(dir)} :
            probe = [pc |-> "cron", cache_files |-> dir,
                     metas |-> {write_meta_path(dir[i].basename[2]) : i \in 1 .. Len(dir)},
                     now |-> MaxClock + 1, max_age_hours |-> hours, max_size_bytes |-> cap,
                     unremovable |-> bad, result |-> <<>>]

(* One run of cleanup_old_cache *)
Cleanup ==
    /\ probe.pc = "cron"
    /\ probe' = [probe EXCEPT
                    !.pc = "cleaned",
                    !.result = cleanup_old_cache(probe.cache_files, probe.metas, probe.now,
                                                 probe.max_age_hours, probe.max_size_bytes,
                                                 probe.unremovable)]
    /\ Frozen

NextCleanup == Cleanup

SpecCleanup == InitCleanup /\ [][NextCleanup]_vars

----------------------------------------------------------------------------
(* Properties *)

(* A request is in possession of slot s: acquire_free_or_cold_slot or      *)
(* ensure_slot_for_request handed it s and its finally block has not run.  *)
Possesses(r, s) == req[r].sid = s /\ req[r].pc \in {"restore", "chat", "stream"}

(* r takes a step: every action changes the record of the handler it runs, *)
(* except a relayed stream chunk.                                          *)
Acts(r) == req'[r] # req[r]

(* ensure_slot_for_request returns to r with the given outcome tag *)
Returns(r, tags) == req[r].source = "none" /\ req'[r].source \in tags

(* The finally block of r runs *)
Releases(r) == req[r].pc \in {"chat", "stream"} /\ req'[r].pc = "done"

(* C1: in every reachable state and for every slot id at most one request  *)
(* is in possession of the slot.                                           *)
C1_AtMostOnePossessor ==
    \A s \in Slots : Cardinality({r \in Req : Possesses(r, s)}) <= 1

(* C2: a request that has ended and had locked a slot has called release   *)
(* exactly once and no slot lock is still held by it.                      *)
C2_ReleasedExactlyOnce ==
    \A r \in Req :
        (req[r].pc = "done" /\ req[r].sid # None)
            => (req[r].nrel = 1 /\ locks[req[r].sid].owner # r)

(* C3: when a big request releases its slot, either the slot is hot, bound *)
(* to the request's key and a MetaRecord of that key exists that is not    *)
(* older than the completion, or a save failure was logged for it.         *)
C3_CompletionSaved ==
    [][\A r \in Req :
          (Releases(r) /\ ~req[r].small) =>
              \/ /\ bindings'[req[r].sid].hot
                 /\ bindings'[req[r].sid].key = req[r].key
                 /\ \E i \in 1 .. Len(metas') :
                        metas'[i].key = req[r].key /\ metas'[i].timestamp >= clock
              \/ \E c \in calls'[r] : c.op = "save_failed"]_vars

(* C4: when ensure_slot_for_request returns active-exact, the returned     *)
(* binding's block_hashes equal the request's block hashes.                *)
C4_ExactMeansEqual ==
    [][\A r \in Req :
          Returns(r, {"active-exact"}) =>
              bindings'[req'[r].sid].block_hashes = req'[r].blocks]_vars

(* The slot id the Matcher rejected for r, known from the step that sets it *)
RejectedOf(r) == IF req[r].rejected # None THEN req[r].rejected ELSE req'[r].rejected

(* C5: with at least two slot ids, a request whose active candidate was    *)
(* rejected is never given the rejected slot, and no step of that request  *)
(* changes the rejected slot's key, block_hashes or hot flag.              *)
C5_RejectedSpared ==
    [][\A r \in Req :
          (slots_count >= 2 /\ Acts(r) /\ RejectedOf(r) # None) =>
              /\ req'[r].sid # RejectedOf(r)
              /\ bindings'[RejectedOf(r)].key = bindings[RejectedOf(r)].key
              /\ bindings'[RejectedOf(r)].block_hashes = bindings[RejectedOf(r)].block_hashes
              /\ bindings'[RejectedOf(r)].hot = bindings[RejectedOf(r)].hot]_vars

(* A request with a rejected candidate has been bound cold to another     *)
(* slot, one that was bound before (no free id was left), while the       *)
(* rejected slot is unlocked.                                             *)
C5_Witness ==
    \E r \in Req :
        /\ slots_count >= 2
        /\ req[r].rejected # None
        /\ req[r].source \in {"cold", "restore-lcp"}
        /\ req[r].took = "bound"
        /\ ~locks[req[r].rejected].locked

(* C6: every return tagged active-lcp or restore-lcp has                   *)
(* lcp / min(|R|, |C|) >= 0.85 for the request's blocks R and the          *)
(* candidate's blocks C (the matched hot binding, or the MetaRecord the    *)
(* new binding is made from).                                              *)
C6_AcceptedAboveThreshold ==
    [][\A r \in Req :
          Returns(r, {"active-lcp", "restore-lcp"}) =>
              LET R == req'[r].blocks
                  C == bindings'[req'[r].sid].block_hashes
                  n == Min(Len(R), Len(C))
              IN  /\ n > 0
                  /\ lcp_blocks(R, C) * SimilarityDen >= SimilarityNum * n]_vars

(* An active-lcp return for a hot binding shorter than the request *)
C6_Witness ==
    \E r \in Req : /\ req[r].source = "active-lcp"
                    /\ Len(bindings[req[r].sid].block_hashes) < Len(req[r].blocks)

(* r has picked slot s as its target and waits in lock.acquire() *)
Picked(r, s) == req[r].pc = "wait_slot" /\ req[r].sid = s

(* C7: no two requests are at once in the state "picked sid, lock not yet  *)
(* obtained" for the same sid.                                             *)
C7_SelectionAtomic ==
    \A s \in Slots : Cardinality({r \in Req : Picked(r, s)}) <= 1

(* C8: when a big request is bound cold or by restore to a slot that is    *)
(* hot with another key, a save_slot(sid, current key) call has been       *)
(* issued for that slot before the binding is overwritten.                 *)
C8_EvictionSaves ==
    [][\A r \in Req :
          (/\ Returns(r, {"cold", "restore-lcp"})
           /\ bindings[req'[r].sid].hot
           /\ bindings[req'[r].sid].key # bindings'[req'[r].sid].key) =>
              \E c \in calls'[r] :
                  /\ c.op \in {"save", "save_failed"}
                  /\ c.sid = req'[r].sid
                  /\ c.key = bindings[req'[r].sid].key]_vars

(* C9: when the restore call of a request returns, the slot is hot and     *)
(* bound to the restore key if the backend answered 200, and cold with no  *)
(* bound key, generation going on, if it answered another status.          *)
C9_RestoreOutcome ==
    [][\A r \in Req :
          (req[r].pc = "restore" /\ req'[r].restore \in {"ok", "status"}) =>
              LET b == bindings'[req[r].sid]
              IN  /\ req'[r].pc \in {"chat", "stream"}
                  /\ req'[r].restore = "ok" =>
                        (b.hot /\ b.key = metas[req[r].meta].key)
                  /\ req'[r].restore = "status" =>
                        (~b.hot /\ b.key = EmptyKey)]_vars

(* C10: when a small request releases its slot, the slot is cold and the   *)
(* request has issued no save and no restore call.                         *)
C10_SmallLeavesCold ==
    [][\A r \in Req :
          (Releases(r) /\ req[r].small) =>
              /\ ~bindings'[req[r].sid].hot
              /\ \A c \in calls'[r] : c.op = "chat"]_vars

(* C11: when a big request releases its slot lock, after generation ended  *)
(* with success, a backend error or a client disconnect, it has issued a   *)
(* backend save_slot call for its slot and its own key.                    *)
C11_SaveBeforeRelease ==
    [][\A r \in Req :
          (Releases(r) /\ ~req[r].small) =>
              \E c \in calls'[r] :
                  /\ c.op \in {"save", "save_failed"}
                  /\ c.sid = req[r].sid
                  /\ c.key = req[r].key]_vars

C13_ColdHasNoKey ==
    \A s \in Slots :
        (bindings[s].bound /\ ~bindings[s].hot) =>
            (bindings[s].key = EmptyKey /\ bindings[s].block_hashes = <<>>)

(* C14: no step lowers the last_use_ts of a slot (the clock never runs     *)
(* backwards): touch, an active accept, the binding of a free id and the   *)
(* rebinding by restore or cold start all stamp the current time.          *)
C14_LastUseMonotone ==
    [][\A s \in Slots : bindings'[s].last_use_ts >= bindings[s].last_use_ts]_vars

(* A big request streams on a slot stamped after the clock has advanced *)
C14_Witness ==
    \E r \in Req : /\ req[r].pc = "stream"
                    /\ ~req[r].small
                    /\ clock > 0
                    /\ bindings[req[r].sid].last_use_ts = clock

(* C20: when the forwarded chat completion of a non-stream request, big or *)
(* small, fails because the backend is unreachable, the client gets 502,   *)
(* the slot lock is released, the request has issued no save call and the  *)
(* metadata directory is unchanged.                                        *)
C20_Unreachable502 ==
    [][\A r \in Req :
          (req[r].pc = "chat" /\ req'[r].detail = "llama backend unavailable") =>
              /\ req'[r].pc = "done"
              /\ req'[r].status = 502
              /\ req'[r].nrel = req[r].nrel + 1
              /\ ~locks'[req[r].sid].locked
              /\ \A c \in calls'[r] : c.op \notin {"save", "save_failed"}
              /\ metas' = metas]_vars

(* A big and a small non-stream request have both ended on an unreachable  *)
(* backend.                                                                *)
C20_Witness ==
    \E r1, r2 \in Req :
        /\ req[r1].small /\ ~req[r2].small
        /\ \A r \in {r1, r2} : req[r].pc = "done" /\ req[r].detail = "llama backend unavailable"

(* The prefix size and the threshold of the mode the request selected *)
ProbeSize ==
    CASE resolve_threshold_mode(probe.mode) = "chars" -> TextLen(probe.text)
      [] resolve_threshold_mode(probe.mode) = "words" -> Len(probe.text)
      [] OTHER -> Len(block_hashes_from_text(probe.text, probe.wpb))

ProbeThreshold ==
    CASE resolve_threshold_mode(probe.mode) = "chars" -> probe.min_chars
      [] resolve_threshold_mode(probe.mode) = "words" -> probe.min_words
      [] OTHER -> probe.min_blocks

(* C15: a request is classified big if and only if its prefix size is      *)
(* strictly greater than the threshold of the selected mode; a size equal  *)
(* to the threshold is small.                                              *)
C15_BigIffAboveThreshold ==
    probe.pc = "classified" => (~probe.small <=> ProbeSize > ProbeThreshold)

(* C15 as amended: a request is classified big if and only if its prefix   *)
(* size is at least the threshold (the minimum prefix size) of the         *)
(* selected mode; a size equal to the threshold is big.                    *)
C15_BigIffAtLeastThreshold ==
    probe.pc = "classified" => (~probe.small <=> ProbeSize >= ProbeThreshold)

(* A non-empty request exactly at the threshold has been classified big *)
C15_Witness ==
    /\ probe.pc = "classified"
    /\ ProbeSize = ProbeThreshold
    /\ ProbeSize > 0
    /\ ~probe.small

(* Record m has the manager's model_id and the request's block size, and   *)
(* lcp / min(|R|, |C|) >= 0.85 against the request blocks R.               *)
PassingRecord(m, R, wpb) ==
    /\ m.model_id = DEFAULT_MODEL_ID
    /\ m.wpb = wpb
    /\ Min(Len(R), Len(m.blocks)) > 0
    /\ lcp_blocks(R, m.blocks) * SimilarityDen >= SimilarityNum * Min(Len(R), Len(m.blocks))

(* C16: when ensure_slot_for_request accepts no active candidate and some  *)
(* MetaRecord of the manager's model and the request's block size has      *)
(* lcp / min(|R|, |C|) >= 0.85, the outcome is restore-lcp and not cold,   *)
(* whatever other records the directory holds.                             *)
C16_PassingRecordRestores ==
    [][\A r \in Req :
          (/\ Returns(r, {"cold", "restore-lcp"})
           /\ \E i \in 1 .. Len(metas) : PassingRecord(metas[i], req'[r].blocks, req'[r].wpb))
              => req'[r].source = "restore-lcp"]_vars

(* C17: a restore-lcp outcome comes from a MetaRecord whose model_id is    *)
(* the manager's and whose block size, as write_meta recorded it, is the   *)
(* request's words_per_block.                                              *)
C17_RestoreMatchesBlockSize ==
    [][\A r \in Req :
          Returns(r, {"restore-lcp"}) =>
              /\ metas[req'[r].meta].model_id = DEFAULT_MODEL_ID
              /\ metas[req'[r].meta].wpb = req'[r].wpb]_vars

(* C18: a request with no blocks never matches: its outcome is never       *)
(* active-exact, active-lcp or restore-lcp, and find_best_restore_candidate *)
(* finds no record for it.                                                 *)
C18_EmptyNeverMatches ==
    [][\A r \in Req :
          (/\ Returns(r, {"active-exact", "active-lcp", "restore-lcp", "cold"})
           /\ req'[r].blocks = <<>>) =>
              /\ req'[r].source = "cold"
              /\ find_best_restore_candidate(metas, <<>>, req'[r].wpb, SimilarityNum,
                                              SimilarityDen, DEFAULT_MODEL_ID) = None]_vars

(* r settles on slot s as the target of a cold start, a restore or a small *)
(* request: acquire_free_or_cold_slot picks it in this step.               *)
Targets(r, s) ==
    /\ req[r].sid = None
    /\ req'[r].sid = s
    /\ req'[r].via \in {"small", "target"}

(* C19: while some slot id other than the rejected one is unbound or bound *)
(* and not pinned, no request settles on a pinned slot as its target,      *)
(* whether or not slots are locked.                                        *)
C19_PinnedNeverTarget ==
    [][\A r \in Req : \A s \in Slots :
          (/\ Targets(r, s)
           /\ bindings[s].bound /\ bindings[s].pinned
           /\ \E t \in 0 .. (slots_count - 1) :
                  t # req'[r].rejected /\ ~(bindings[t].bound /\ bindings[t].pinned))
              => FALSE]_vars

(* The snapshot basenames a cleanup run removed, and the files it left *)
CleanupRemoved ==
    probe.result.deleted_by_age
        \cup {probe.result.deleted_by_size[j].basename : j \in 1 .. Len(probe.result.deleted_by_size)}

CleanupLeft ==
    {probe.cache_files[i] : i \in 1 .. Len(probe.cache_files)}
        \ {cf \in {probe.cache_files[i] : i \in 1 .. Len(probe.cache_files)} :
               cf.basename \in CleanupRemoved}

(* C21: when a cleanup run has deleted the snapshot of key K, by age or by *)
(* size, the MetaRecord file of K, under the name write_meta gives it, is  *)
(* gone after the run.                                                     *)
C21_CleanupRemovesMeta ==
    probe.pc = "cleaned" =>
        \A i \in 1 .. Len(probe.cache_files) :
            probe.cache_files[i].basename \in CleanupRemoved
                => write_meta_path(probe.cache_files[i].basename[2]) \notin probe.result.metas

(* C22: after a cleanup run in which no removal failed, the snapshots left *)
(* total at most the size cap, every snapshot the size phase removed is    *)
(* no newer than any snapshot left, and each removal of the size phase was *)
(* made while the running total was above the cap.                         *)
C22_SizePhaseOldestFirst ==
    (probe.pc = "cleaned" /\ probe.unremovable = {}) =>
        LET by_size == probe.result.deleted_by_size
        IN  /\ SumSizes(SelectSeq(probe.cache_files,
                                   LAMBDA cf : cf.basename \notin CleanupRemoved))
                   <= probe.max_size_bytes
            /\ \A j \in 1 .. Len(by_size) :
                   /\ \A cf \in CleanupLeft : by_size[j].mtime <= cf.mtime
                   /\ by_size[j].total_size > probe.max_size_bytes

(* The size phase has removed a snapshot, and left a strictly newer one     *)
(* that comes before it in the listing.                                     *)
C22_Witness ==
    /\ probe.pc = "cleaned"
    /\ probe.unremovable = {}
    /\ Len(probe.result.deleted_by_size) > 0
    /\ \E i, j \in 1 .. Len(probe.cache_files) :
           /\ i < j
           /\ probe.cache_files[i] \in CleanupLeft
           /\ probe.cache_files[j].basename \in CleanupRemoved
           /\ probe.cache_files[j].basename \notin probe.result.deleted_by_age

(* The slot ids acquire_free_or_cold_slot chooses among for r, as they are *)
(* before the step: never used; bound, not rejected and not pinned; of     *)
(* these the ones whose lock is not taken, and of those the cold ones.     *)
FreeIdsFor(r) == {t \in 0 .. (slots_count - 1) : t # req'[r].rejected /\ ~bindings[t].bound}

PoolFor(r) ==
    {t \in 0 .. (slots_count - 1) :
        t # req'[r].rejected /\ bindings[t].bound /\ ~bindings[t].pinned}

UnlockedFor(r) == {t \in PoolFor(r) : ~locks[t].locked}

ColdUnlockedFor(r) == {t \in UnlockedFor(r) : ~bindings[t].hot}

Lru(s, ids) == s \in ids /\ \A t \in ids : bindings[s].last_use_ts <= bindings[t].last_use_ts

(* C23: the target of a cold, restore-lcp or small request is a never-used *)
(* slot id other than the rejected one when there is one, and otherwise    *)
(* the slot of smallest last_use_ts among the slots neither rejected nor   *)
(* pinned, whatever their heat.                                            *)
C23_TargetIsLru ==
    [][\A r \in Req : \A s \in Slots :
          Targets(r, s) =>
              IF FreeIdsFor(r) # {} THEN s \in FreeIdsFor(r)
              ELSE PoolFor(r) # {} => Lru(s, PoolFor(r))]_vars

(* C23 as amended: the target is a never-used slot id other than the       *)
(* rejected one when there is one; otherwise, among the slots neither      *)
(* rejected nor pinned whose lock is free, the cold slot of smallest       *)
(* last_use_ts when one is cold, else the slot of smallest last_use_ts.    *)
C23_TargetIsLruOfTier ==
    [][\A r \in Req : \A s \in Slots :
          Targets(r, s) =>
              IF FreeIdsFor(r) # {} THEN s \in FreeIdsFor(r)
              ELSE IF ColdUnlockedFor(r) # {} THEN Lru(s, ColdUnlockedFor(r))
              ELSE UnlockedFor(r) # {} => Lru(s, UnlockedFor(r))]_vars

(* A small request runs on a slot it took bound, while another slot, hot,  *)
(* unlocked and not pinned, has a smaller last_use_ts.                     *)
C23_Witness ==
    \E r \in Req : \E t \in 0 .. (slots_count - 1) :
        /\ req[r].small /\ req[r].pc \in {"chat", "stream"} /\ req[r].took = "bound"
        /\ t # req[r].sid
        /\ bindings[t].hot /\ ~bindings[t].pinned /\ ~locks[t].locked
        /\ bindings[t].last_use_ts < bindings[req[r].sid].last_use_ts

(* C28: acquire_free_or_cold_slot returns a free id outside exclude when   *)
(* there is one; else an unlocked, non-pinned, non-excluded cold slot;     *)
(* else an unlocked, non-pinned, non-excluded hot slot; and it settles on  *)
(* a locked slot, to wait for it, only when there is none of these.        *)
C28_DocumentedPriority ==
    [][\A r \in Req : \A s \in Slots :
          Targets(r, s) =>
              /\ FreeIdsFor(r) # {} => s \in FreeIdsFor(r)
              /\ (FreeIdsFor(r) = {} /\ ColdUnlockedFor(r) # {}) => s \in ColdUnlockedFor(r)
              /\ (FreeIdsFor(r) = {} /\ ColdUnlockedFor(r) = {} /\ UnlockedFor(r) # {})
                     => (s \in UnlockedFor(r) /\ bindings[s].hot)
              /\ (bindings[s].bound /\ locks[s].locked)
                     => (FreeIdsFor(r) = {} /\ UnlockedFor(r) = {} /\ req'[r].pc = "wait_slot")]_vars

(* One request waits for a locked slot while another runs on a slot it     *)
(* took bound and unlocked.                                                *)
C28_Witness ==
    \E r1, r2 \in Req :
        /\ req[r1].pc = "wait_slot" /\ req[r1].via \in {"small", "target"}
        /\ locks[req[r1].sid].locked
        /\ req[r2].pc \in {"chat", "stream"} /\ req[r2].via \in {"small", "target"}
        /\ req[r2].took = "bound"

(* r holds the lock of slot s: its own acquire() succeeded and no          *)
(* release() has unlocked the lock since.                                  *)
HoldsLock(r, s) == locks[s].locked /\ locks[s].owner = r

(* C24: while a backend call of a request on a slot is in flight (restore, *)
(* forwarded chat completion, non-stream or stream), that request holds    *)
(* the slot's lock.                                                        *)
C24_CallsUnderLock ==
    \A r \in Req :
        req[r].pc \in {"restore", "chat", "stream"} => HoldsLock(r, req[r].sid)

(* C29: when the finally block of a request calls binding.lock.release(),  *)
(* the lock is either held by that request or already unlocked.            *)
C29_ReleaseOwnLockOnly ==
    [][\A r \in Req :
          Releases(r) =>
              (locks[req[r].sid].locked => locks[req[r].sid].owner = r)]_vars

(* C25: the global selection lock is never held by a request that is       *)
(* suspended in the acquire() of a slot lock.                              *)
C25_NoGlobalWhileBlocked ==
    \A r \in Req :
        req[r].pc = "wait_slot" => ~(global_lock.locked /\ global_lock.owner = r)

(* The step of big request r in which steps 1 and 2 pick its active        *)
(* candidate: the slot the request is accepted on, or the rejected one.    *)
Matches(r) == ~req'[r].small /\ req[r].via = "none" /\ req'[r].via # "none"

CandidateOf(r) ==
    IF req'[r].via \in {"active-exact", "active-lcp"} THEN req'[r].sid ELSE req'[r].rejected

(* C26: the active candidate has the maximum lcp among the eligible hot    *)
(* slots, and among those of maximum lcp the most recent last_use_ts.      *)
C26_CandidateMaxLcpMostRecent ==
    [][\A r \in Req :
          (Matches(r) /\ CandidateOf(r) # None) =>
              LET c    == CandidateOf(r)
                  l(s) == lcp_blocks(req'[r].blocks, bindings[s].block_hashes)
              IN  \A t \in BoundIds(bindings) :
                      _eligible_active(bindings[t], req'[r].wpb) =>
                          \/ l(t) < l(c)
                          \/ l(t) = l(c) /\ bindings[t].last_use_ts <= bindings[c].last_use_ts]_vars

(* The request's block hashes pass the threshold against blocks bs. *)
Passes(r, bs) == RatioAccepted(lcp_blocks(req[r].blocks, bs), Len(req[r].blocks), Len(bs))

(* C27: a request goes on to restore-lcp or cold only if no eligible hot   *)
(* slot has the request's block hashes and the eligible hot slot of        *)
(* maximum lcp that steps 1 and 2 settled on has a ratio below the         *)
(* threshold; a request that returns active-exact or active-lcp has used   *)
(* no metadata record and issued no restore call, and its slot keeps key   *)
(* and block hashes.                                                       *)
C27_OutcomePriority ==
    [][\A r \in Req :
          /\ Returns(r, {"restore-lcp", "cold"}) => req'[r].via = "target"
          /\ (Matches(r) /\ req'[r].via = "target") =>
                 LET elig == {s \in BoundIds(bindings) :
                                 _eligible_active(bindings[s], req'[r].wpb)}
                     l(s) == lcp_blocks(req'[r].blocks, bindings[s].block_hashes)
                 IN  /\ \A s \in elig : bindings[s].block_hashes # req'[r].blocks
                     /\ elig # {} =>
                            \E c \in elig :
                                /\ \A t \in elig : l(t) <= l(c)
                                /\ ~RatioAccepted(l(c), Len(req'[r].blocks),
                                                  Len(bindings[c].block_hashes))
                                /\ req'[r].rejected \in {None, c}
          /\ Returns(r, {"active-exact", "active-lcp"}) =>
                 /\ req'[r].meta = 0
                 /\ \A c \in calls'[r] : c.op # "restore"
                 /\ bindings'[req'[r].sid].key = bindings[req'[r].sid].key
                 /\ bindings'[req'[r].sid].block_hashes = bindings[req'[r].sid].block_hashes]_vars

(* A request runs on an active match although a metadata record of the     *)
(* directory passes the threshold for it, while another request whose      *)
(* active candidate was rejected runs on a cold binding.                   *)
C27_Witness ==
    \E r1, r2 \in Req :
        /\ req[r1].pc \in {"chat", "stream"}
        /\ req[r1].source \in {"active-exact", "active-lcp"}
        /\ \E i \in 1 .. Len(metas) :
               MetaPasses(metas[i], req[r1].wpb) /\ Passes(r1, metas[i].blocks)
        /\ req[r2].pc \in {"chat", "stream"}
        /\ req[r2].source = "cold" /\ req[r2].rejected # None

(* C30: a bound slot id keeps the lock object of its binding for ever,     *)
(* distinct slot ids have distinct lock objects, and every request that    *)
(* waits for or holds a slot has in hand the lock object the slot's        *)
(* current binding carries.                                                *)
C30_OneLockPerSlot ==
    [][/\ \A s \in Slots :
             bindings[s].bound => (bindings'[s].bound /\ bindings'[s].lock = bindings[s].lock)
       /\ \A s, t \in Slots :
             (bindings'[s].bound /\ bindings'[t].bound /\ s # t)
                 => bindings'[s].lock # bindings'[t].lock
       /\ \A r \in Req :
             req'[r].pc \in {"wait_slot", "restore", "chat", "stream"}
                 => req'[r].lock = bindings'[req'[r].sid].lock]_vars

(* A request runs on a slot whose binding it has replaced while another    *)
(* request is queued on the lock of that slot.                             *)
C30_Witness ==
    \E r1, r2 \in Req :
        /\ req[r1].pc \in {"chat", "stream"}
        /\ req[r1].source \in {"cold", "restore-lcp"} /\ req[r1].took = "bound"
        /\ req[r2].pc = "wait_slot" /\ req[r2].sid = req[r1].sid
        /\ r2 \in {locks[req[r1].sid].waiters[i] : i \in 1 .. Len(locks[req[r1].sid].waiters)}

(* r runs, or in this step comes to run, on an accepted active match *)
OnActiveMatch(r) ==
    \/ req[r].via \in {"active-exact", "active-lcp"}
    \/ req'[r].via \in {"active-exact", "active-lcp"}

(* C32: a step of a request on an accepted active match, from the match to *)
(* the release, changes nothing of the bindings but the matched slot's     *)
(* last_use_ts.                                                            *)
C32_ActiveMatchFrame ==
    [][\A r \in Req :
          (Acts(r) /\ OnActiveMatch(r)) =>
              LET sid == IF req[r].sid # None THEN req[r].sid ELSE req'[r].sid
              IN  \A s \in Slots :
                      \/ bindings'[s] = bindings[s]
                      \/ /\ s = sid
                         /\ bindings'[s] = [bindings[s] EXCEPT
                                               !.last_use_ts = bindings'[s].last_use_ts]]_vars

(* A request runs on an active-lcp match of a slot whose block hashes      *)
(* differ from its own, and the match has moved the slot's last_use_ts.    *)
C32_Witness ==
    \E r \in Req :
        /\ req[r].pc \in {"chat", "stream"} /\ req[r].source = "active-lcp"
        /\ bindings[req[r].sid].block_hashes # req[r].blocks
        /\ bindings[req[r].sid].key # req[r].key
        /\ bindings[req[r].sid].last_use_ts = MaxClock

(* C31: every request that has entered acquire_free_or_cold_slot or        *)
(* ensure_slot_for_request eventually finishes: none stays suspended on    *)
(* the global lock or on a slot lock for ever.                             *)
C31_EveryRequestFinishes ==
    \A r \in Req : (req[r].pc # "idle") ~> (req[r].pc = "done")

====
